---- MODULE Spec2Model ----
(***************************************************************************)
(* Model of the listing scraper: the BeautifulSoup-compatible shim         *)
(* (src/bs4/__init__.py: tree builder, selector matcher, query API) and    *)
(* the fetch / extraction helpers (src/src/helpers.py,                     *)
(* src/src/kpi1_extract.py).                                               *)
(*                                                                         *)
(* Strings are sequences of one-character strings, so that parsing,        *)
(* splitting, escaping and rendering are computed character by character. *)
(* An optional value (Python's None) is a record [some, v].                *)
(***************************************************************************)
EXTENDS Integers, Sequences, FiniteSets, TLC

VARIABLES
  nodes,     \* _HTMLTreeBuilder: the arena of _Node objects, nodes[1] the root
  current,   \* _HTMLTreeBuilder.current: identity of the open element
  fed,       \* number of parser events handled so far
  pc,        \* position of the fetch / extraction call
  caller,    \* who called fetch_html: "direct" or "extract_listing"
  retries,   \* fetch_html argument
  backoff,   \* fetch_html argument, a rational [n, d]
  attempt,   \* loop variable of fetch_html
  delay,     \* fetch_html local, a rational [n, d]
  last_exc,  \* fetch_html local: what the last failed attempt raised
  error,     \* the exception fetch_html raised to its caller, "none" if none
  log,       \* what fetch_html did so far: sleeps and GET attempts in order
  soup,      \* the arena of the Document fetch_html returned, <<>> before
  queries,   \* the extraction queries run by extract_listing, in order
  result,    \* the value extract_listing returned
  specs,     \* the argument of the last generate_title call, key -> optional str
  generated  \* the value generate_title returned, <<>> before any call

vars == <<nodes, current, fed, pc, caller, retries, backoff, attempt, delay,
          last_exc, error, log, soup, queries, result, specs, generated>>

treeVars == <<nodes, current, fed>>
titleVars == <<specs, generated>>
fetchVars == <<pc, caller, retries, backoff, attempt, delay, last_exc, error,
               log, soup, queries, result>>

(***************************************************************************)
(* Bounds.                                                                 *)
(***************************************************************************)
MaxTokens == 4        \* parser events fed to the builder (Spec)
MaxQueryTokens == 4   \* parser events fed to the builder (SpecQuery)
MaxRetries == 4       \* largest retries argument of fetch_html (SpecFetch)

(***************************************************************************)
(* Strings.                                                                *)
(***************************************************************************)
None == [some |-> FALSE, v |-> <<>>]
Some(s) == [some |-> TRUE, v |-> s]

\* truthiness of an optional string: neither None nor empty
Truthy(o) == o.some /\ o.v # <<>>

UpperCase == <<"A","B","C","D","E","F","G","H","I","J","K","L","M",
               "N","O","P","Q","R","S","T","U","V","W","X","Y","Z">>
LowerCase == <<"a","b","c","d","e","f","g","h","i","j","k","l","m",
               "n","o","p","q","r","s","t","u","v","w","x","y","z">>
Digits == <<"0","1","2","3","4","5","6","7","8","9">>

Range(s) == {s[i] : i \in 1..Len(s)}

\* position of c in the sequence s, 0 when absent
IndexOf(s, c) ==
  IF \E i \in 1..Len(s) : s[i] = c
    THEN CHOOSE i \in 1..Len(s) : s[i] = c
    ELSE 0

Letters == Range(UpperCase) \cup Range(LowerCase)
\* str.lower() on the ASCII letters, as a table
ToLower == [c \in Range(UpperCase) |-> LowerCase[IndexOf(UpperCase, c)]]

Lower(c) == IF c \in DOMAIN ToLower THEN ToLower[c] ELSE c

LowerStr(s) == [i \in 1..Len(s) |-> Lower(s[i])]

IsSpace(c) == c \in {" ", "\t", "\n"}

RECURSIVE Concat(_)
Concat(ss) == IF ss = <<>> THEN <<>> ELSE Head(ss) \o Concat(Tail(ss))

\* str.split() with no argument: the maximal runs of non-whitespace characters
RECURSIVE SplitFrom(_, _, _)
SplitFrom(s, i, word) ==
  IF i > Len(s)
    THEN IF word = <<>> THEN <<>> ELSE <<word>>
    ELSE IF IsSpace(s[i])
           THEN IF word = <<>>
                  THEN SplitFrom(s, i + 1, <<>>)
                  ELSE <<word>> \o SplitFrom(s, i + 1, <<>>)
           ELSE SplitFrom(s, i + 1, Append(word, s[i]))

Split(s) == SplitFrom(s, 1, <<>>)

\* needle in hay (Python's substring test on str)
Contains(hay, needle) ==
  \E i \in 0..(Len(hay) - Len(needle)) :
    SubSeq(hay, i + 1, i + Len(needle)) = needle

StartsWith(s, p) == Len(s) >= Len(p) /\ SubSeq(s, 1, Len(p)) = p

Drop(s, n) == SubSeq(s, n + 1, Len(s))

(***************************************************************************)
(* Nodes.  The tree is an arena: nodes[i] is the _Node with identity i,    *)
(* nodes[1] is the root, parent = 0 stands for "no parent".                *)
(***************************************************************************)
ROOT == 1
ROOT_NAME == <<"_", "_", "r", "o", "o", "t", "_", "_">>

VOID_ELEMENTS ==
  { <<"a","r","e","a">>, <<"b","a","s","e">>, <<"b","r">>, <<"c","o","l">>,
    <<"e","m","b","e","d">>, <<"h","r">>, <<"i","m","g">>,
    <<"i","n","p","u","t">>, <<"l","i","n","k">>, <<"m","e","t","a">>,
    <<"p","a","r","a","m">>, <<"s","o","u","r","c","e">>,
    <<"t","r","a","c","k">>, <<"w","b","r">> }

NodeChild(i) == [kind |-> "node", id |-> i, text |-> <<>>]
TextChild(s) == [kind |-> "text", id |-> 0, text |-> s]

\* dict lookup / update on an insertion-ordered dict, kept as a sequence of
\* [k, v] records with distinct keys
DictHas(d, k) == \E i \in 1..Len(d) : d[i].k = k
DictGet(d, k) ==
  IF DictHas(d, k)
    THEN Some(d[CHOOSE i \in 1..Len(d) : d[i].k = k].v)
    ELSE None
DictSet(d, k, v) ==
  IF DictHas(d, k)
    THEN [i \in 1..Len(d) |-> IF d[i].k = k THEN [k |-> k, v |-> v] ELSE d[i]]
    ELSE Append(d, [k |-> k, v |-> v])

\* {key: value or "" for key, value in attrs}; pairs are [k, val] with an
\* optional val (an attribute written without a value has val = None)
RECURSIVE AttrDict(_, _)
AttrDict(pairs, acc) ==
  IF pairs = <<>> THEN acc
  ELSE AttrDict(Tail(pairs),
                DictSet(acc, Head(pairs).k,
                        IF Head(pairs).val.some THEN Head(pairs).val.v ELSE <<>>))

_Node(name, attrs, parent) ==
  [name |-> name, attrs |-> AttrDict(attrs, <<>>), children |-> <<>>,
   parent |-> parent]

\* _Node.append on node i of builder state b
append(ns, i, child) ==
  [ns EXCEPT ![i].children = Append(@, child)]

(***************************************************************************)
(* _HTMLTreeBuilder.  A builder state is [nodes, current].                  *)
(***************************************************************************)
NewBuilder == [nodes |-> << _Node(ROOT_NAME, <<>>, 0) >>, current |-> ROOT]

starttag(b, tag, attrs) ==
  LET id == Len(b.nodes) + 1
      ns == append(Append(b.nodes, _Node(tag, attrs, b.current)),
                   b.current, NodeChild(id))
  IN [nodes |-> ns,
      current |-> IF LowerStr(tag) \notin VOID_ELEMENTS THEN id ELSE b.current]

startendtag(b, tag, attrs) ==
  LET id == Len(b.nodes) + 1
  IN [nodes |-> append(Append(b.nodes, _Node(tag, attrs, b.current)),
                       b.current, NodeChild(id)),
      current |-> b.current]

\* self.current.parent or self.root
ParentOrRoot(ns, i) == IF ns[i].parent = 0 THEN ROOT ELSE ns[i].parent

\* the while loop of handle_endtag: climb until the root or a node named tag
RECURSIVE Climb(_, _, _)
Climb(ns, cur, tag) ==
  IF cur # ROOT /\ LowerStr(ns[cur].name) # tag
    THEN Climb(ns, ParentOrRoot(ns, cur), tag)
    ELSE cur

\* handle_endtag that stops on the element it found instead of its parent
endtag_stay(b, tag0) ==
  [nodes |-> b.nodes, current |-> Climb(b.nodes, b.current, LowerStr(tag0))]

endtag(b, tag0) ==
  LET tag == LowerStr(tag0)
      cur == Climb(b.nodes, b.current, tag)
  IN [nodes |-> b.nodes,
      current |-> IF cur # ROOT THEN ParentOrRoot(b.nodes, cur) ELSE cur]

data(b, text) ==
  IF text # <<>>
    THEN [nodes |-> append(b.nodes, b.current, TextChild(text)),
          current |-> b.current]
    ELSE b

\* html.entities.name2codepoint, the entries the model's markup uses
name2codepoint ==
  << [k |-> <<"l","t">>, v |-> 60], [k |-> <<"g","t">>, v |-> 62],
     [k |-> <<"a","m","p">>, v |-> 38], [k |-> <<"q","u","o","t">>, v |-> 34] >>

MAX_UNICODE == 1114111

\* chr(): the code points the model's markup uses; ValueError (here <<>>)
\* above the Unicode range
chr(n) ==
  CASE n = 60 -> <<"<">>
    [] n = 62 -> <<">">>
    [] n = 38 -> <<"&">>
    [] n = 34 -> <<"\"">>
    [] n = 63 -> <<"?">>
    [] n = 98 -> <<"b">>
    [] n = 112 -> <<"p">>
    [] n > MAX_UNICODE -> <<>>

entityref(b, name) ==
  LET cp == DictGet(name2codepoint, name)
  IN data(b, chr(IF cp.some THEN cp.v ELSE 63))

\* value of a digit in the given base, -1 when it is no digit of that base
DigitVal(c, base) ==
  LET d == IndexOf(Digits, c)
      h == IndexOf(SubSeq(LowerCase, 1, 6), Lower(c))
  IN IF d > 0 THEN d - 1
     ELSE IF base = 16 /\ h > 0 THEN 9 + h
     ELSE -1

\* int(s, base) for unsigned digit strings; -1 stands for ValueError
RECURSIVE ParseInt(_, _, _)
ParseInt(s, base, acc) ==
  IF s = <<>> THEN acc
  ELSE IF DigitVal(Head(s), base) < 0 THEN -1
  ELSE ParseInt(Tail(s), base, acc * base + DigitVal(Head(s), base))

\* str.lstrip("xX")
RECURSIVE LStripX(_)
LStripX(s) ==
  IF s # <<>> /\ Head(s) \in {"x", "X"} THEN LStripX(Tail(s)) ELSE s

charref(b, name) ==
  LET base == IF name # <<>> /\ Lower(Head(name)) = "x" THEN 16 ELSE 10
      digits == LStripX(name)
      n == IF digits = <<>> THEN -1 ELSE ParseInt(digits, base, 0)
      char == IF n < 0 \/ chr(n) = <<>> THEN <<"?">> ELSE chr(n)
  IN data(b, char)

comment(b, text) ==
  [nodes |-> append(b.nodes, b.current,
                    TextChild(<<"<","!","-","-">> \o text \o <<"-","-",">">>)),
   current |-> b.current]

(***************************************************************************)
(* Selector matcher.                                                       *)
(***************************************************************************)
\* \w of Python's re on str: letters, digits and the underscore
WordChars == Letters \cup Range(Digits) \cup {"_"}
IsWord(c) == c \in WordChars

IsIdentChar(c) == c \in WordChars \cup {"-"}                 \* [\w-]
TagChars == Letters \cup Range(Digits) \cup {"_", ":", "-"}
IsTagChar(c) == c \in TagChars                               \* [a-zA-Z0-9_:-]
IsAttrNameChar(c) == c \notin {"=", "]"}                     \* [^=\]]

\* length of the longest prefix of s from position i whose characters
\* satisfy the class: the greedy match of  class*
RECURSIVE RunIdent(_, _)
RunIdent(s, i) ==
  IF i <= Len(s) /\ IsIdentChar(s[i]) THEN 1 + RunIdent(s, i + 1) ELSE 0
RECURSIVE RunTag(_, _)
RunTag(s, i) ==
  IF i <= Len(s) /\ IsTagChar(s[i]) THEN 1 + RunTag(s, i + 1) ELSE 0
RECURSIVE RunAttrName(_, _)
RunAttrName(s, i) ==
  IF i <= Len(s) /\ IsAttrNameChar(s[i]) THEN 1 + RunAttrName(s, i + 1) ELSE 0
RECURSIVE RunSpace(_, _)
RunSpace(s, i) ==
  IF i <= Len(s) /\ IsSpace(s[i]) THEN 1 + RunSpace(s, i + 1) ELSE 0
RECURSIVE RunNot(_, _, _)
RunNot(s, i, stop) ==
  IF i <= Len(s) /\ s[i] # stop THEN 1 + RunNot(s, i + 1, stop) ELSE 0

\* str.strip(): whitespace removed at both ends
RECURSIVE RStrip(_)
RStrip(s) ==
  IF s # <<>> /\ IsSpace(s[Len(s)]) THEN RStrip(SubSeq(s, 1, Len(s) - 1)) ELSE s
strip(s) == RStrip(Drop(s, RunSpace(s, 1)))

\* str.strip("\"'"): quote characters removed at both ends
RECURSIVE StripQuotes(_)
StripQuotes(s) ==
  IF s # <<>> /\ Head(s) \in {"\"", "'"} THEN StripQuotes(Tail(s))
  ELSE IF s # <<>> /\ s[Len(s)] \in {"\"", "'"}
         THEN StripQuotes(SubSeq(s, 1, Len(s) - 1))
  ELSE s

NoMatch == [ok |-> FALSE, name |-> <<>>, op |-> None, value |-> None, end |-> 0]

\* (?P<value>"[^"]*"|'[^']*'|[^\]]+)\]  tried at position i: the alternatives
\* in order, each followed by the closing bracket; end = 0 when none matches
ValueAt(s, i) ==
  LET closes(j) == j <= Len(s) /\ s[j] = "]"
      quoted(q, n, rest) ==
        IF i <= Len(s) /\ s[i] = q /\ i + 1 + n <= Len(s) /\ closes(i + n + 2)
          THEN [value |-> SubSeq(s, i, i + n + 1), end |-> i + n + 2]
          ELSE rest
      unquoted(n) ==
        IF n >= 1 /\ closes(i + n)
          THEN [value |-> SubSeq(s, i, i + n - 1), end |-> i + n]
          ELSE [value |-> <<>>, end |-> 0]
  IN quoted("\"", RunNot(s, i + 1, "\""),
            quoted("'", RunNot(s, i + 1, "'"), unquoted(RunNot(s, i, "]"))))

\* \s*(?P<value>...)\] after an operator ending before position i: the
\* whitespace run is greedy and gives characters back until the rest matches
OpTail(s, i) ==
  LET widest(good) == CHOOSE w \in good : \A x \in good : x <= w
      pick(good) == IF good = {} THEN [value |-> <<>>, end |-> 0]
                    ELSE ValueAt(s, i + widest(good))
  IN pick({w \in 0..RunSpace(s, i) : ValueAt(s, i + w).end > 0})

\* the rest of _selector_attr_re after a name that ends before position i:
\* the optional group first (the operator alternatives *= and = in order),
\* then the empty alternative of the group, which needs the closing bracket
AfterName(s, i) ==
  LET star == i + 1 <= Len(s) /\ s[i] = "*" /\ s[i + 1] = "="
      eq == i <= Len(s) /\ s[i] = "="
      group(is, op, r, rest) ==
        IF is /\ r.end > 0
          THEN [ok |-> TRUE, op |-> Some(op), value |-> Some(r.value), end |-> r.end]
          ELSE rest
      nogroup ==
        IF i <= Len(s) /\ s[i] = "]"
          THEN [ok |-> TRUE, op |-> None, value |-> None, end |-> i]
          ELSE [ok |-> FALSE, op |-> None, value |-> None, end |-> 0]
  IN group(star, <<"*", "=">>, OpTail(s, i + 2),
           group(eq, <<"=">>, OpTail(s, i + 1), nogroup))

\* _selector_attr_re.match(s): s starts with "["; the name is greedy and
\* gives characters back, longest first, until the rest of the pattern matches
selector_attr_re(s) ==
  LET longest(good) == CHOOSE k \in good : \A x \in good : x <= k
      matched(n, r) == [ok |-> TRUE, name |-> SubSeq(s, 2, 1 + n), op |-> r.op,
                        value |-> r.value, end |-> r.end]
      at(n) == matched(n, AfterName(s, 2 + n))
      pick(good) == IF s = <<>> \/ s[1] # "[" \/ good = {} THEN NoMatch
                    ELSE at(longest(good))
  IN pick({n \in 1..RunAttrName(s, 2) : AfterName(s, 2 + n).ok})

\* _Selector(); classes = <<>> stands for None (classes or None)
EmptySelector ==
  [tag |-> None, id |-> None, classes |-> <<>>,
   attr_name |-> None, attr_value |-> None, attr_op |-> None]

\* the while loop of _parse_selector over the rest of the text
RECURSIVE ParseLoop(_, _)
ParseLoop(cursor, sel) ==
  IF cursor = <<>> THEN sel
  ELSE IF Head(cursor) = "#"
    THEN LET n == RunIdent(cursor, 2)
         IN IF n = 0 THEN sel
            ELSE ParseLoop(Drop(cursor, 1 + n),
                           [sel EXCEPT !.id = Some(SubSeq(cursor, 2, 1 + n))])
  ELSE IF Head(cursor) = "."
    THEN LET n == RunIdent(cursor, 2)
         IN IF n = 0 THEN sel
            ELSE ParseLoop(Drop(cursor, 1 + n),
                           [sel EXCEPT !.classes = Append(@, SubSeq(cursor, 2, 1 + n))])
  ELSE IF Head(cursor) = "["
    THEN LET attr(m) ==
               IF ~m.ok THEN sel
               ELSE ParseLoop(Drop(cursor, m.end),
                              [sel EXCEPT !.attr_name = Some(strip(m.name)),
                                          !.attr_op = m.op,
                                          !.attr_value =
                                             IF m.value.some /\ m.value.v # <<>>
                                               THEN Some(StripQuotes(m.value.v))
                                               ELSE m.value])
         IN attr(selector_attr_re(cursor))
  ELSE LET n == RunTag(cursor, 1)
       IN IF n = 0 THEN sel
          ELSE ParseLoop(Drop(cursor, n), [sel EXCEPT !.tag = Some(SubSeq(cursor, 1, n))])

_parse_selector(selector) == ParseLoop(strip(selector), EmptySelector)

S_id == <<"i", "d">>
S_class == <<"c", "l", "a", "s", "s">>

\* matches with the class test done on the attribute text, not its tokens
matches_class_substring(sel, n) ==
  IF n.name = ROOT_NAME THEN FALSE
  ELSE IF Truthy(sel.tag) /\ LowerStr(n.name) # LowerStr(sel.tag.v) THEN FALSE
  ELSE IF Truthy(sel.id) /\ DictGet(n.attrs, S_id) # sel.id THEN FALSE
  ELSE IF sel.classes # <<>>
          /\ \E i \in 1..Len(sel.classes) :
               ~Contains(IF DictHas(n.attrs, S_class)
                           THEN DictGet(n.attrs, S_class).v ELSE <<>>,
                         sel.classes[i])
    THEN FALSE
  ELSE IF Truthy(sel.attr_name)
    THEN LET attr_val == DictGet(n.attrs, sel.attr_name.v)
         IN IF ~attr_val.some THEN FALSE
            ELSE IF sel.attr_op = Some(<<"=">>)
              THEN attr_val.v = (IF Truthy(sel.attr_value) THEN sel.attr_value.v ELSE <<>>)
            ELSE IF sel.attr_op = Some(<<"*", "=">>) /\ Truthy(sel.attr_value)
              THEN Contains(attr_val.v, sel.attr_value.v)
            ELSE TRUE
  ELSE TRUE

\* _Selector.matches on the node n (a record of the arena)
matches(sel, n) ==
  IF n.name = ROOT_NAME THEN FALSE
  ELSE IF Truthy(sel.tag) /\ LowerStr(n.name) # LowerStr(sel.tag.v) THEN FALSE
  ELSE IF Truthy(sel.id) /\ DictGet(n.attrs, S_id) # sel.id THEN FALSE
  ELSE IF sel.classes # <<>>
          /\ LET node_classes ==
                   Split(IF DictHas(n.attrs, S_class)
                           THEN DictGet(n.attrs, S_class).v ELSE <<>>)
             IN \E i \in 1..Len(sel.classes) :
                  sel.classes[i] \notin Range(node_classes)
    THEN FALSE
  ELSE IF Truthy(sel.attr_name)
    THEN LET attr_val == DictGet(n.attrs, sel.attr_name.v)
         IN IF ~attr_val.some THEN FALSE
            ELSE IF sel.attr_op = Some(<<"=">>)
              THEN attr_val.v = (IF Truthy(sel.attr_value) THEN sel.attr_value.v ELSE <<>>)
            ELSE IF sel.attr_op = Some(<<"*", "=">>) /\ Truthy(sel.attr_value)
              THEN Contains(attr_val.v, sel.attr_value.v)
            ELSE TRUE
  ELSE TRUE

(***************************************************************************)
(* Traversal / query API.  ns is the arena, a subject is a node identity;  *)
(* isDoc tells a BeautifulSoup (the root) from a Tag.                      *)
(***************************************************************************)
RECURSIVE _iter_nodes(_, _, _)
RECURSIVE IterChildren(_, _)
IterChildren(ns, children) ==
  IF children = <<>> THEN <<>>
  ELSE (IF Head(children).kind = "node"
          THEN _iter_nodes(ns, Head(children).id, TRUE) ELSE <<>>)
       \o IterChildren(ns, Tail(children))

_iter_nodes(ns, node, include_self) ==
  (IF include_self /\ ns[node].name # ROOT_NAME THEN <<node>> ELSE <<>>)
    \o IterChildren(ns, ns[node].children)

\* selector.split(",") keeping the parts that are non-empty after strip()
RECURSIVE SplitComma(_, _)
SplitComma(s, part) ==
  LET kept(piece) == IF piece # <<>> THEN <<piece>> ELSE <<>>
  IN IF s = <<>> THEN kept(strip(part))
     ELSE IF Head(s) = "," THEN kept(strip(part)) \o SplitComma(Tail(s), <<>>)
     ELSE SplitComma(Tail(s), Append(part, Head(s)))

\* the two nested loops of select: the groups in order, the nodes in
\* document order, a node already seen is skipped
\* the inner loop without the test on seen
RECURSIVE SelectNodesNoSeen(_, _, _, _, _)
SelectNodesNoSeen(ns, parsed, iterator, i, results) ==
  IF i > Len(iterator) THEN results
  ELSE SelectNodesNoSeen(ns, parsed, iterator, i + 1,
         IF matches(parsed, ns[iterator[i]])
           THEN Append(results, iterator[i]) ELSE results)

RECURSIVE SelectNodes(_, _, _, _, _)
SelectNodes(ns, parsed, iterator, i, results) ==
  IF i > Len(iterator) THEN results
  ELSE SelectNodes(ns, parsed, iterator, i + 1,
         IF iterator[i] \notin Range(results) /\ matches(parsed, ns[iterator[i]])
           THEN Append(results, iterator[i]) ELSE results)

RECURSIVE SelectGroups(_, _, _, _)
SelectGroups(ns, selectors, iterator, results) ==
  IF selectors = <<>> THEN results
  ELSE SelectGroups(ns, Tail(selectors), iterator,
         SelectNodes(ns, _parse_selector(Head(selectors)), iterator, 1, results))

select(ns, subject, isDoc, selector) ==
  SelectGroups(ns, SplitComma(selector, <<>>), _iter_nodes(ns, subject, isDoc), <<>>)

select_one(ns, subject, isDoc, selector) ==
  LET first(ms) == IF ms # <<>> THEN [some |-> TRUE, v |-> ms[1]]
                   ELSE [some |-> FALSE, v |-> 0]
  IN first(select(ns, subject, isDoc, selector))

(***************************************************************************)
(* find / find_all.  A callable filter is a description of the function:   *)
(* [f |-> "table", tbl |-> t] answers t[x] on the argument x (the tag name *)
(* of the Tag for a name filter, the optional attribute value for an attrs *)
(* filter), and [f |-> "token", c |-> c] is                                *)
(*     lambda value: c in value.split()                                    *)
(* An answer is "true", "false" or "raise".  The result of a query is      *)
(* [exc, val]: exc tells that an exception reached the caller.             *)
(***************************************************************************)
\* _Node.text_content of node i
RECURSIVE text_content(_, _)
RECURSIVE TextOfChildren(_, _)
TextOfChildren(ns, children) ==
  IF children = <<>> THEN <<>>
  ELSE (IF Head(children).kind = "node"
          THEN text_content(ns, Head(children).id)
          ELSE Head(children).text)
       \o TextOfChildren(ns, Tail(children))

text_content(ns, i) == TextOfChildren(ns, ns[i].children)

\* get_text(strip)
get_text(ns, i, stripped) ==
  IF stripped THEN strip(text_content(ns, i)) ELSE text_content(ns, i)

\* a name filter called on Tag(ns[i]);
\* "text_is" is  lambda tag: isinstance(tag, Tag) and tag.get_text(strip=True) == c
CallName(pred, ns, i) ==
  IF pred.f = "text_is"
    THEN IF get_text(ns, i, TRUE) = pred.c THEN "true" ELSE "false"
    ELSE pred.tbl[ns[i].name]

\* an attrs filter called on the optional attribute value;
\* "contains" is  lambda c: c and "..." in c
CallAttr(pred, value) ==
  IF pred.f = "token"
    THEN IF ~value.some THEN "raise"           \* None has no split()
         ELSE IF pred.c \in Range(Split(value.v)) THEN "true" ELSE "false"
  ELSE IF pred.f = "contains"
    THEN IF Truthy(value) /\ Contains(value.v, pred.c) THEN "true" ELSE "false"
  ELSE pred.tbl[value]

Ok(v) == [exc |-> FALSE, val |-> v]
Raised(v) == [exc |-> TRUE, val |-> v]

NameNone == [kind |-> "none"]
NameStr(s) == [kind |-> "str", str |-> s]
NameCall(pred) == [kind |-> "call", pred |-> pred]
AttrLit(k, o) == [k |-> k, kind |-> "lit", lit |-> o]
AttrCall(k, pred) == [k |-> k, kind |-> "call", pred |-> pred]

\* _match_name without the try/except around the call
_match_name_unguarded(ns, i, name) ==
  IF name.kind = "none" THEN Ok(TRUE)
  ELSE IF name.kind = "call"
    THEN IF CallName(name.pred, ns, i) = "raise" THEN Raised(FALSE)
         ELSE Ok(CallName(name.pred, ns, i) = "true")
  ELSE Ok(LowerStr(ns[i].name) = LowerStr(name.str))

_match_name(ns, i, name) ==
  IF name.kind = "none" THEN Ok(TRUE)
  ELSE IF name.kind = "call"
    THEN Ok(CallName(name.pred, ns, i) = "true")   \* except Exception: return False
  ELSE Ok(LowerStr(ns[i].name) = LowerStr(name.str))

\* one iteration of the loop of _match_attrs
MatchAttr(n, a) ==
  LET value == DictGet(n.attrs, a.k)
  IN IF a.kind = "call"
       THEN Ok(CallAttr(a.pred, value) = "true")  \* except Exception: return False
       ELSE Ok(value = a.lit)

RECURSIVE _match_attrs(_, _)
_match_attrs(n, attrs) ==
  LET rest(r) == IF r.exc \/ ~r.val THEN r ELSE _match_attrs(n, Tail(attrs))
  IN IF attrs = <<>> THEN Ok(TRUE) ELSE rest(MatchAttr(n, Head(attrs)))

\* _match_name(node, name) and _match_attrs(node, attrs)
MatchNode(ns, i, name, attrs) ==
  LET rest(r) == IF r.exc \/ ~r.val THEN r ELSE _match_attrs(ns[i], attrs)
  IN rest(_match_name(ns, i, name))

RECURSIVE FindLoop(_, _, _, _, _, _)
FindLoop(ns, iterator, i, name, attrs, ms) ==
  LET step(r) == IF r.exc THEN Raised(ms)
                 ELSE FindLoop(ns, iterator, i + 1, name, attrs,
                               IF r.val THEN Append(ms, iterator[i]) ELSE ms)
  IN IF i > Len(iterator) THEN Ok(ms)
     ELSE step(MatchNode(ns, iterator[i], name, attrs))

\* find_all that starts the traversal at the subject itself
find_all_with_self(ns, subject, name, attrs) ==
  FindLoop(ns, _iter_nodes(ns, subject, TRUE), 1, name, attrs, <<>>)

\* _SoupMixin.find_all, the one a Tag runs
find_all(ns, subject, name, attrs) ==
  FindLoop(ns, _iter_nodes(ns, subject, FALSE), 1, name, attrs, <<>>)

\* BeautifulSoup.find_all, the override a Document runs
BeautifulSoup_find_all(ns, name, attrs) ==
  FindLoop(ns, _iter_nodes(ns, ROOT, FALSE), 1, name, attrs, <<>>)

\* self.find_all(...) dispatched on the type of self
FindAll(ns, subject, isDoc, name, attrs) ==
  IF isDoc THEN BeautifulSoup_find_all(ns, name, attrs)
  ELSE find_all(ns, subject, name, attrs)

\* find: [exc, some, v]; some = FALSE is the return value None
find(ns, subject, isDoc, name, attrs) ==
  LET first(r) ==
        IF r.exc THEN [exc |-> TRUE, some |-> FALSE, v |-> 0]
        ELSE IF r.val # <<>> THEN [exc |-> FALSE, some |-> TRUE, v |-> r.val[1]]
        ELSE [exc |-> FALSE, some |-> FALSE, v |-> 0]
  IN first(FindAll(ns, subject, isDoc, name, attrs))

(***************************************************************************)
(* Serialization: _Node.render / render_contents / decode_contents.        *)
(***************************************************************************)
\* html.escape(value, quote=True)
EscapeChar(c) ==
  CASE c = "&" -> <<"&", "a", "m", "p", ";">>
    [] c = "<" -> <<"&", "l", "t", ";">>
    [] c = ">" -> <<"&", "g", "t", ";">>
    [] c = "\"" -> <<"&", "q", "u", "o", "t", ";">>
    [] c = "'" -> <<"&", "#", "x", "2", "7", ";">>
    [] OTHER -> <<c>>

escape(s) == Concat([i \in 1..Len(s) |-> EscapeChar(s[i])])

RenderAttrs(attrs) ==
  Concat([i \in 1..Len(attrs) |->
            <<" ">> \o attrs[i].k \o <<"=", "\"">> \o escape(attrs[i].v) \o <<"\"">>])

RECURSIVE render(_, _)
RECURSIVE render_contents(_, _)
RECURSIVE RenderChildren(_, _)
RenderChildren(ns, children) ==
  IF children = <<>> THEN <<>>
  ELSE (IF Head(children).kind = "node"
          THEN render(ns, Head(children).id)
          ELSE Head(children).text)            \* a text run is written as it is
       \o RenderChildren(ns, Tail(children))

render_contents(ns, i) == RenderChildren(ns, ns[i].children)

render(ns, i) ==
  LET open == <<"<">> \o ns[i].name \o RenderAttrs(ns[i].attrs) \o <<">">>
  IN IF ns[i].name \in VOID_ELEMENTS THEN open
     ELSE open \o render_contents(ns, i) \o <<"<", "/">> \o ns[i].name \o <<">">>

decode_contents(ns, i) == render_contents(ns, i)

(***************************************************************************)
(* BeautifulSoup(markup): html.parser.HTMLParser.feed and close, which     *)
(* turn the markup into calls of the handlers.  The tokenizer is modelled  *)
(* for the markup the serializer writes: tags with double-quoted attribute *)
(* values, comments, and text runs written as they are.                    *)
(***************************************************************************)
Event(type, tag, attrs, text) ==
  [type |-> type, tag |-> tag, attrs |-> attrs, text |-> text]

\* position of the first c in s at or after position i, 0 when there is none
RECURSIVE FindChar(_, _, _)
FindChar(s, c, i) ==
  IF i > Len(s) THEN 0 ELSE IF s[i] = c THEN i ELSE FindChar(s, c, i + 1)

References ==
  << [k |-> <<"&", "a", "m", "p", ";">>, v |-> "&"],
     [k |-> <<"&", "l", "t", ";">>, v |-> "<"],
     [k |-> <<"&", "g", "t", ";">>, v |-> ">"],
     [k |-> <<"&", "q", "u", "o", "t", ";">>, v |-> "\""],
     [k |-> <<"&", "#", "x", "2", "7", ";">>, v |-> "'"] >>

\* html.unescape on an attribute value
RECURSIVE unescape(_)
unescape(s) ==
  IF s = <<>> THEN <<>>
  ELSE IF \E r \in 1..Len(References) : StartsWith(s, References[r].k)
    THEN LET r == CHOOSE x \in 1..Len(References) : StartsWith(s, References[x].k)
         IN <<References[r].v>> \o unescape(Drop(s, Len(References[r].k)))
  ELSE <<Head(s)>> \o unescape(Tail(s))

\* (?:\s|/(?!>))*  from position k on
RECURSIVE SkipTagSpace(_, _)
SkipTagSpace(s, k) ==
  IF k <= Len(s)
     /\ (IsSpace(s[k]) \/ (s[k] = "/" /\ ~(k < Len(s) /\ s[k + 1] = ">")))
    THEN SkipTagSpace(s, k + 1) ELSE k

\* end of a run of characters outside the stop set, from position k on
RECURSIVE RunOutside(_, _, _)
RunOutside(s, k, stops) ==
  IF k <= Len(s) /\ s[k] \notin stops THEN RunOutside(s, k + 1, stops) ELSE k

TagNameStops == {" ", "\t", "\n", "/", ">"}
AttrNameStops == {" ", "\t", "\n", "/", "=", ">"}
BareValueStops == {" ", "\t", "\n", ">"}

\* the attributes of a start tag from position k on: [attrs, end], end the
\* position where the attributes stop
RECURSIVE TagAttrs(_, _, _)
TagAttrs(s, k, acc) ==
  IF k > Len(s) \/ s[k] \in {"/", ">"} THEN [attrs |-> acc, end |-> k]
  ELSE LET e == RunOutside(s, k + 1, AttrNameStops)
           name == LowerStr(SubSeq(s, k, e - 1))
           hasValue == e <= Len(s) /\ s[e] = "="
           quoted == hasValue /\ e < Len(s) /\ s[e + 1] = "\""
                       /\ FindChar(s, "\"", e + 2) > 0
           close == IF quoted THEN FindChar(s, "\"", e + 2)
                    ELSE RunOutside(s, e + 1, BareValueStops) - 1
           raw == IF quoted THEN SubSeq(s, e + 2, close - 1)
                  ELSE SubSeq(s, e + 1, close)
       IN IF hasValue
            THEN TagAttrs(s, SkipTagSpace(s, close + 1),
                          Append(acc, [k |-> name, val |-> Some(unescape(raw))]))
            ELSE TagAttrs(s, SkipTagSpace(s, e),
                          Append(acc, [k |-> name, val |-> None]))

\* parse_starttag at position i, where s[i] = "<" and s[i+1] is a letter:
\* [ok, ev, end]; ok is false when the tag is not closed before the end
StartTagAt(s, i) ==
  LET j == RunOutside(s, i + 1, TagNameStops)
      a == TagAttrs(s, SkipTagSpace(s, j), <<>>)
      k == a.end
      tag == LowerStr(SubSeq(s, i + 1, j - 1))
  IN IF k > Len(s) THEN [ok |-> FALSE, ev |-> Event("none", <<>>, <<>>, <<>>), end |-> 0]
     ELSE IF s[k] = "/"
       THEN [ok |-> TRUE, ev |-> Event("startend", tag, a.attrs, <<>>), end |-> k + 2]
     ELSE [ok |-> TRUE, ev |-> Event("start", tag, a.attrs, <<>>), end |-> k + 1]

\* the text handed to handle_data when a construct opened at position i is
\* not closed before the end: up to the next "<", or the "<" alone
UnclosedEnd(s, i) ==
  IF FindChar(s, "<", i + 1) > 0 THEN FindChar(s, "<", i + 1) ELSE i + 1

IsAt(s, i, p) == i + Len(p) - 1 <= Len(s) /\ SubSeq(s, i, i + Len(p) - 1) = p

\* position of the first occurrence of p in s at or after i, 0 when none
RECURSIVE FindSeq(_, _, _)
FindSeq(s, p, i) ==
  IF i + Len(p) - 1 > Len(s) THEN 0
  ELSE IF IsAt(s, i, p) THEN i ELSE FindSeq(s, p, i + 1)

\* goahead: the events of the markup s from position i on
RECURSIVE Tokenize(_, _)
Tokenize(s, i) ==
  IF i > Len(s) THEN <<>>
  ELSE IF s[i] # "<"
    THEN LET j == RunOutside(s, i, {"<"})
         IN <<Event("data", <<>>, <<>>, SubSeq(s, i, j - 1))>> \o Tokenize(s, j)
  ELSE IF i < Len(s) /\ s[i + 1] \in Letters
    THEN LET r == StartTagAt(s, i)
         IN IF r.ok THEN <<r.ev>> \o Tokenize(s, r.end)
            ELSE <<Event("data", <<>>, <<>>, SubSeq(s, i, UnclosedEnd(s, i) - 1))>>
                   \o Tokenize(s, UnclosedEnd(s, i))
  ELSE IF IsAt(s, i, <<"<", "/">>) /\ FindChar(s, ">", i + 2) > i + 2
    THEN <<Event("end", LowerStr(SubSeq(s, i + 2, FindChar(s, ">", i + 2) - 1)),
                 <<>>, <<>>)>>
           \o Tokenize(s, FindChar(s, ">", i + 2) + 1)
  ELSE IF IsAt(s, i, <<"<", "!", "-", "-">>) /\ FindSeq(s, <<"-", "-", ">">>, i + 4) > 0
    THEN LET close == FindSeq(s, <<"-", "-", ">">>, i + 4)
         IN <<Event("comment", <<>>, <<>>, SubSeq(s, i + 4, close - 1))>>
              \o Tokenize(s, close + 3)
  ELSE IF IsAt(s, i, <<"<", "?">>)
    THEN IF FindChar(s, ">", i + 2) > 0
           THEN Tokenize(s, FindChar(s, ">", i + 2) + 1)     \* handle_pi: nothing
           ELSE <<Event("data", <<>>, <<>>, SubSeq(s, i, UnclosedEnd(s, i) - 1))>>
                  \o Tokenize(s, UnclosedEnd(s, i))
  ELSE <<Event("data", <<>>, <<>>, <<"<">>)>> \o Tokenize(s, i + 1)

\* one call of a handler
Feed(b, ev) ==
  CASE ev.type = "start" -> starttag(b, ev.tag, ev.attrs)
    [] ev.type = "startend" -> startendtag(b, ev.tag, ev.attrs)
    [] ev.type = "end" -> endtag(b, ev.tag)
    [] ev.type = "data" -> data(b, ev.text)
    [] ev.type = "entityref" -> entityref(b, ev.text)
    [] ev.type = "charref" -> charref(b, ev.text)
    [] ev.type = "comment" -> comment(b, ev.text)

RECURSIVE FeedAll(_, _)
FeedAll(b, evs) ==
  IF evs = <<>> THEN b ELSE FeedAll(Feed(b, Head(evs)), Tail(evs))

\* BeautifulSoup(markup)._node: the arena the builder ends with
BeautifulSoup(markup) == FeedAll(NewBuilder, Tokenize(markup, 1)).nodes

(***************************************************************************)
(* The parser events the builder is fed.  html.parser lower-cases tag and  *)
(* attribute names before it calls the handlers.                           *)
(***************************************************************************)
S_p == <<"p">>
S_b == <<"b">>
S_br == <<"b", "r">>
S_k == <<"k">>
S_x == <<"x">>

Attr(k, v) == [k |-> k, val |-> Some(v)]
AttrNoValue(k) == [k |-> k, val |-> None]

\* Spec: every handler, few attributes
StartTags ==
  { [tag |-> S_p, attrs |-> <<>>],
    [tag |-> S_b, attrs |-> <<Attr(S_k, <<"a", "\"", "<">>)>>],
    [tag |-> S_br, attrs |-> <<>>] }
StartEndTags == { [tag |-> S_p, attrs |-> <<AttrNoValue(S_k)>>] }
EndTags == { S_p, S_b }
DataRuns == { <<"b">> }
EntityRefs == { <<"l", "t">>, <<"z">> }
CharRefs == { <<"x", "3", "E">>, <<"9","9","9","9","9","9","9">> }
Comments == { <<"c">> }

\* SpecQuery: the events that make elements, with the attributes the
\* queries look at
QStartTags ==
  { [tag |-> S_p, attrs |-> <<Attr(S_class, <<"a", " ", "b">>)>>],
    [tag |-> S_b, attrs |-> <<Attr(S_class, <<"a", "b", " ", "a", ":">>),
                              Attr(S_id, S_x)>>],
    [tag |-> S_br, attrs |-> <<Attr(S_class, <<"b">>)>>] }
QStartEndTags ==
  { [tag |-> S_b, attrs |-> <<Attr(S_class, <<"b", "\t", "a">>), AttrNoValue(S_id)>>] }
QEndTags == { S_p, S_b }
QDataRuns == { <<"t">> }

Builder == [nodes |-> nodes, current |-> current]

Fed(b) ==
  /\ nodes' = b.nodes
  /\ current' = b.current
  /\ fed' = fed + 1
  /\ UNCHANGED <<fetchVars, titleVars>>

handle_starttag(tag, attrs) == Fed(starttag(Builder, tag, attrs))
handle_startendtag(tag, attrs) == Fed(startendtag(Builder, tag, attrs))
handle_endtag(tag) == Fed(endtag(Builder, tag))
handle_data(text) == Fed(data(Builder, text))
handle_entityref(name) == Fed(entityref(Builder, name))
handle_charref(name) == Fed(charref(Builder, name))
handle_comment(text) == Fed(comment(Builder, text))

Zero == [n |-> 0, d |-> 1]

FetchIdle ==
  /\ pc = "idle"
  /\ caller = "none"
  /\ retries = 0
  /\ backoff = Zero
  /\ attempt = 0
  /\ delay = Zero
  /\ last_exc = "none"
  /\ error = "none"
  /\ log = <<>>
  /\ soup = <<>>
  /\ queries = <<>>
  /\ result = <<>>

\* the fields generate_title reads
TitleKeys == { <<"b", "r", "a", "n", "d">>, <<"m", "o", "d", "e", "l">>, <<"i", "n", "c", "h">>, <<"w", "i", "d", "t", "h">>, 
              <<"h", "o", "l", "e", "s">>, <<"p", "c", "d">>, <<"o", "f", "f", "s", "e", "t">> }

\* no call of generate_title yet
TitleIdle ==
  /\ specs = [k \in TitleKeys |-> None]
  /\ generated = <<>>

TreeInit ==
  /\ nodes = NewBuilder.nodes
  /\ current = NewBuilder.current
  /\ fed = 0

Init == TreeInit /\ FetchIdle /\ TitleIdle

Next ==
  /\ fed < MaxTokens
  /\ \/ \E t \in StartTags : handle_starttag(t.tag, t.attrs)
     \/ \E t \in StartEndTags : handle_startendtag(t.tag, t.attrs)
     \/ \E t \in EndTags : handle_endtag(t)
     \/ \E t \in DataRuns : handle_data(t)
     \/ \E t \in EntityRefs : handle_entityref(t)
     \/ \E t \in CharRefs : handle_charref(t)
     \/ \E t \in Comments : handle_comment(t)

Spec == Init /\ [][Next]_vars

NextQuery ==
  /\ fed < MaxQueryTokens
  /\ \/ \E t \in QStartTags : handle_starttag(t.tag, t.attrs)
     \/ \E t \in QStartEndTags : handle_startendtag(t.tag, t.attrs)
     \/ \E t \in QEndTags : handle_endtag(t)
     \/ \E t \in QDataRuns : handle_data(t)

SpecQuery == Init /\ [][NextQuery]_vars

(***************************************************************************)
(* fetch_html (src/src/helpers.py).  Delays and the backoff factor are     *)
(* rationals [n, d]; the arguments are non-negative.  log records, in      *)
(* order, every time.sleep and every GET attempt with its outcome.         *)
(***************************************************************************)
Rat(n, d) == [n |-> n, d |-> d]
Mul(x, y) == [n |-> x.n * y.n, d |-> x.d * y.d]
RatEq(x, y) == x.n * y.d = y.n * x.d
NonZero(x) == x.n # 0

DEFAULT_RETRIES == 3
DEFAULT_BACKOFF == Rat(3, 2)

Backoffs == { Rat(0, 1), Rat(1, 1), Rat(2, 1), Rat(3, 2) }
Failures == { "transport", "status" }

SleepEntry(a, d) == [type |-> "sleep", attempt |-> a, delay |-> d, outcome |-> "none"]
GetEntry(a, o) == [type |-> "get", attempt |-> a, delay |-> Zero, outcome |-> o]

\* a loop that runs one iteration more
InRangeOneMore(a, r) == a <= r + 1

\* for attempt in range(1, retries + 1): the loop body runs for this attempt
InRange(a, r) == a <= r

\* a delay that stays at backoff
NextDelayConstant(d, b) == b

\* delay = delay * backoff if delay else backoff
NextDelay(d, b) == IF NonZero(d) THEN Mul(d, b) ELSE b

\* entry into fetch_html: the locals before the loop
Enter(who, r, b) ==
  /\ pc = "idle"
  /\ pc' = "loop"
  /\ caller' = who
  /\ retries' = r
  /\ backoff' = b
  /\ attempt' = 1
  /\ delay' = Zero
  /\ last_exc' = "none"
  /\ UNCHANGED <<error, log, soup, queries, result>>
  /\ UNCHANGED <<treeVars, titleVars>>

\* a direct call with any arguments
fetch_html(r, b) == Enter("direct", r, b)

\* top of a loop iteration: if delay: time.sleep(delay)
fetch_sleep ==
  /\ pc = "loop"
  /\ InRange(attempt, retries)
  /\ log' = IF NonZero(delay) THEN Append(log, SleepEntry(attempt, delay)) ELSE log
  /\ pc' = "get"
  /\ UNCHANGED <<caller, retries, backoff, attempt, delay, last_exc, error, soup,
                 queries, result>>
  /\ UNCHANGED <<treeVars, titleVars>>

\* the GET succeeds with a 2xx status: return BeautifulSoup(response.text)
fetch_get_ok(markup) ==
  /\ pc = "get"
  /\ log' = Append(log, GetEntry(attempt, "ok"))
  /\ soup' = BeautifulSoup(markup)
  /\ pc' = "returned"
  /\ UNCHANGED <<caller, retries, backoff, attempt, delay, last_exc, error,
                 queries, result>>
  /\ UNCHANGED <<treeVars, titleVars>>

\* the GET raises, or raise_for_status raises on a non-2xx status:
\* except Exception: remember it, lengthen the delay, next attempt
fetch_get_fail(kind) ==
  /\ pc = "get"
  /\ log' = Append(log, GetEntry(attempt, kind))
  /\ last_exc' = kind
  /\ delay' = NextDelay(delay, backoff)
  /\ attempt' = attempt + 1
  /\ pc' = "loop"
  /\ UNCHANGED <<caller, retries, backoff, error, soup, queries, result>>
  /\ UNCHANGED <<treeVars, titleVars>>

\* the loop is over: raise FetchError
fetch_raise ==
  /\ pc = "loop"
  /\ ~InRange(attempt, retries)
  /\ error' = "FetchError"
  /\ pc' = "raised"
  /\ UNCHANGED <<caller, retries, backoff, attempt, delay, last_exc, log, soup,
                 queries, result>>
  /\ UNCHANGED <<treeVars, titleVars>>

(***************************************************************************)
(* clean_text (src/src/helpers.py) and the extraction of a listing         *)
(* (src/src/kpi1_extract.py).  A character outside ASCII is written by its *)
(* code point.                                                             *)
(***************************************************************************)
UNKNOWN == <<"U+4E0D", "U+660E">>                 \* the placeholder text

RECURSIVE JoinSpace(_)
JoinSpace(words) ==
  IF words = <<>> THEN <<>>
  ELSE IF Len(words) = 1 THEN Head(words)
  ELSE Head(words) \o <<" ">> \o JoinSpace(Tail(words))

\* clean_text on an optional string
clean_text(value) ==
  LET or_unknown(joined) == IF joined = <<>> THEN UNKNOWN ELSE joined
  IN IF ~Truthy(value) THEN UNKNOWN
     ELSE or_unknown(JoinSpace(Split(strip(value.v))))

\* Tag.get(key)
Tag_get(ns, i, key) == DictGet(ns[i].attrs, key)

\* Tag.next_sibling: the next sibling that is an element or a text run with
\* something other than whitespace in it; kind "none" when there is none
RECURSIVE NextAmong(_, _)
NextAmong(siblings, k) ==
  IF k > Len(siblings) THEN [kind |-> "none", id |-> 0, text |-> <<>>]
  ELSE IF siblings[k].kind = "node" THEN siblings[k]
  ELSE IF strip(siblings[k].text) # <<>> THEN siblings[k]
  ELSE NextAmong(siblings, k + 1)

next_sibling(ns, i) ==
  IF ns[i].parent = 0 THEN [kind |-> "none", id |-> 0, text |-> <<>>]
  ELSE LET siblings == ns[ns[i].parent].children
           index == CHOOSE k \in 1..Len(siblings) : siblings[k] = NodeChild(i)
       IN NextAmong(siblings, index + 1)

_extract_title(ns) ==
  LET or_title(h1) == IF h1.some THEN h1
                      ELSE find(ns, ROOT, TRUE, NameStr(<<"t", "i", "t", "l", "e">>), <<>>)
      text_of(title) ==
        clean_text(IF title.some THEN Some(get_text(ns, title.v, FALSE)) ELSE None)
  IN text_of(or_title(find(ns, ROOT, TRUE, NameStr(<<"h", "1">>), <<>>)))

HasPrice == [f |-> "contains", c |-> <<"P", "r", "i", "c", "e">>]

PriceCandidates ==
  << [name |-> <<"s", "p", "a", "n">>, attrs |-> <<AttrLit(<<"i", "t", "e", "m", "p", "r", "o", "p">>, Some(<<"p", "r", "i", "c", "e">>))>>],
     [name |-> <<"s", "p", "a", "n">>, attrs |-> <<AttrCall(S_class, HasPrice)>>],
     [name |-> <<"d", "i", "v">>, attrs |-> <<AttrCall(S_class, HasPrice)>>] >>

RECURSIVE PriceFrom(_, _)
PriceFrom(ns, k) ==
  LET text_of(node) == IF node.some THEN clean_text(Some(get_text(ns, node.v, FALSE)))
                       ELSE PriceFrom(ns, k + 1)
  IN IF k > Len(PriceCandidates) THEN UNKNOWN
     ELSE text_of(find(ns, ROOT, TRUE, NameStr(PriceCandidates[k].name),
                       PriceCandidates[k].attrs))

_extract_price(ns) == PriceFrom(ns, 1)

ShippingLabels == << <<"U+9001", "U+6599">>, <<"S", "h", "i", "p", "p", "i", "n", "g">> >>
ShippingSelector == <<".", "P", "r", "o", "d", "u", "c", "t", "D", "e", "t", "a", "i", "l", "_", "_", "s", "h", "i", "p", "p", "i", "n", "g", ",", " ", ".", "S", "h", "i", "p", "p", "i", "n", "g", "_", "_", "v", "a", "l", "u", "e">>

\* the texts of the selected nodes, the first that is not the placeholder
RECURSIVE FirstKnownText(_, _, _)
FirstKnownText(ns, candidates, k) ==
  LET known(cleaned) == IF cleaned # UNKNOWN THEN cleaned
                        ELSE FirstKnownText(ns, candidates, k + 1)
  IN IF k > Len(candidates) THEN UNKNOWN
     ELSE known(clean_text(Some(get_text(ns, candidates[k], FALSE))))

RECURSIVE ShippingFrom(_, _)
ShippingFrom(ns, k) ==
  LET sibling(cell) == IF cell.some THEN next_sibling(ns, cell.v)
                       ELSE [kind |-> "none", id |-> 0, text |-> <<>>]
      \* a Tag answers get_text(), a str is taken as it is
      text_of(sib) ==
        IF sib.kind = "none" THEN ShippingFrom(ns, k + 1)
        ELSE clean_text(Some(IF sib.kind = "node" THEN get_text(ns, sib.id, FALSE)
                             ELSE sib.text))
  IN IF k > Len(ShippingLabels)
       THEN FirstKnownText(ns, select(ns, ROOT, TRUE, ShippingSelector), 1)
     ELSE text_of(sibling(find(ns, ROOT, TRUE,
                               NameCall([f |-> "text_is", c |-> ShippingLabels[k]]),
                               <<>>)))

_extract_shipping(ns) == ShippingFrom(ns, 1)

description_candidates ==
  << <<"#", "P", "r", "o", "d", "u", "c", "t", "E", "x", "p", "l", "a", "n", "a", "t", "i", "o", "n">>,
     <<"#", "P", "r", "o", "d", "u", "c", "t", "D", "e", "s", "c", "r", "i", "p", "t", "i", "o", "n">>,
     <<".", "P", "r", "o", "d", "u", "c", "t", "E", "x", "p", "l", "a", "n", "a", "t", "i", "o", "n">>,
     <<"s", "e", "c", "t", "i", "o", "n", "[", "i", "t", "e", "m", "p", "r", "o", "p", "=", "'", "d", "e", "s", "c", "r", "i", "p", "t", "i", "o", "n", "'", "]">>,
     <<"d", "i", "v", "[", "c", "l", "a", "s", "s", "*", "=", "'", "D", "e", "s", "c", "r", "i", "p", "t", "i", "o", "n", "'", "]">> >>

RECURSIVE DescriptionFrom(_, _)
DescriptionFrom(ns, k) ==
  LET contents(node) == IF node.some THEN decode_contents(ns, node.v)
                        ELSE DescriptionFrom(ns, k + 1)
  IN IF k > Len(description_candidates) THEN UNKNOWN
     ELSE contents(select_one(ns, ROOT, TRUE, description_candidates[k]))

_extract_description(ns) == DescriptionFrom(ns, 1)

\* str.lstrip("./")
RECURSIVE LStripDotSlash(_)
LStripDotSlash(x) ==
  IF x # <<>> /\ Head(x) \in {".", "/"} THEN LStripDotSlash(Tail(x)) ELSE x

_ensure_absolute_url(src, ns) ==
  LET href_of(base_tag) == IF base_tag.some THEN Tag_get(ns, base_tag.v, <<"h", "r", "e", "f">>) ELSE None
      url_of(href) == IF href.some THEN href.v ELSE <<>>
      slashed(base_url) == IF base_url # <<>> /\ base_url[Len(base_url)] # "/"
                             THEN base_url \o <<"/">> ELSE base_url
      joined(base_url) == IF base_url # <<>> THEN base_url \o LStripDotSlash(src)
                          ELSE src
  IN IF StartsWith(src, <<"h", "t", "t", "p">>) THEN src
     ELSE joined(slashed(url_of(href_of(find(ns, ROOT, TRUE, NameStr(<<"b", "a", "s", "e">>), <<>>)))))

gallery_selectors ==
  << <<"#", "P", "r", "o", "d", "u", "c", "t", "P", "h", "o", "t", "o">>,
     <<"#", "P", "r", "o", "d", "u", "c", "t", "I", "m", "a", "g", "e">>,
     <<".", "P", "r", "o", "d", "u", "c", "t", "I", "m", "a", "g", "e">>,
     <<"d", "i", "v", "[", "c", "l", "a", "s", "s", "*", "=", "'", "I", "m", "a", "g", "e", "'", "]">> >>

\* img.get("src") or img.get("data-src") or img.get("data-lazy")
GallerySrc(ns, img) ==
  LET either(a, b) == IF Truthy(a) THEN a ELSE b
  IN either(Tag_get(ns, img, <<"s", "r", "c">>),
            either(Tag_get(ns, img, <<"d", "a", "t", "a", "-", "s", "r", "c">>), Tag_get(ns, img, <<"d", "a", "t", "a", "-", "l", "a", "z", "y">>)))

\* the loop over the img elements of a gallery container
RECURSIVE ContainerPhotos(_, _, _)
ContainerPhotos(ns, imgs, k) ==
  LET photo(src) == IF Truthy(src) THEN <<_ensure_absolute_url(src.v, ns)>> ELSE <<>>
  IN IF k > Len(imgs) THEN <<>>
     ELSE photo(GallerySrc(ns, imgs[k])) \o ContainerPhotos(ns, imgs, k + 1)

\* the loop over gallery_selectors: it stops at the first container that
\* gave a photo
RECURSIVE GalleryPhotos(_, _)
GalleryPhotos(ns, k) ==
  LET photos_of(container) ==
        IF container.some
          THEN ContainerPhotos(ns, find_all(ns, container.v, NameStr(<<"i", "m", "g">>), <<>>).val, 1)
          ELSE <<>>
      or_next(photos) == IF photos # <<>> THEN photos ELSE GalleryPhotos(ns, k + 1)
  IN IF k > Len(gallery_selectors) THEN <<>>
     ELSE or_next(photos_of(select_one(ns, ROOT, TRUE, gallery_selectors[k])))

MAX_FALLBACK_PHOTOS == 3

\* the loop over every img of the document, left once there are 3 photos
RECURSIVE FallbackPhotos(_, _, _, _)
FallbackPhotos(ns, imgs, k, photos) ==
  LET added(src) == IF Truthy(src) THEN Append(photos, _ensure_absolute_url(src.v, ns))
                    ELSE photos
      rest(more) == IF Len(more) >= MAX_FALLBACK_PHOTOS THEN more
                    ELSE FallbackPhotos(ns, imgs, k + 1, more)
  IN IF k > Len(imgs) THEN photos
     ELSE rest(added(Tag_get(ns, imgs[k], <<"s", "r", "c">>)))

_extract_photos(ns) ==
  LET or_fallback(photos) ==
        IF photos # <<>> THEN photos
        ELSE FallbackPhotos(ns, BeautifulSoup_find_all(ns, NameStr(<<"i", "m", "g">>), <<>>).val, 1, <<>>)
  IN or_fallback(GalleryPhotos(ns, 1))

\* placeholders with a photo in the list
FailedListingWithPhoto ==
  [title |-> UNKNOWN, price |-> UNKNOWN, shipping |-> UNKNOWN,
   photos |-> <<UNKNOWN>>, description_html |-> UNKNOWN]

\* the dict extract_listing returns when fetch_html raised FetchError
FailedListing ==
  [title |-> UNKNOWN, price |-> UNKNOWN, shipping |-> UNKNOWN,
   photos |-> <<>>, description_html |-> UNKNOWN]

\* the dict extract_listing returns for a fetched document
Listing(ns) ==
  [title |-> _extract_title(ns), price |-> _extract_price(ns),
   shipping |-> _extract_shipping(ns), photos |-> _extract_photos(ns),
   description_html |-> _extract_description(ns)]

\* the extraction functions, in the order extract_listing calls them
ExtractionQueries ==
  << "_extract_title", "_extract_price", "_extract_shipping", "_extract_photos",
     "_extract_description" >>

\* extract_listing(url): soup = fetch_html(url), with the default arguments
extract_listing == Enter("extract_listing", DEFAULT_RETRIES, DEFAULT_BACKOFF)

\* except FetchError: return the placeholders
extract_listing_except ==
  /\ pc = "raised"
  /\ caller = "extract_listing"
  /\ error = "FetchError"
  /\ result' = FailedListing
  /\ pc' = "done"
  /\ UNCHANGED <<caller, retries, backoff, attempt, delay, last_exc, error, log,
                 soup, queries>>
  /\ UNCHANGED <<treeVars, titleVars>>

\* fetch_html returned: run the extraction functions on the document
extract_listing_return ==
  /\ pc = "returned"
  /\ caller = "extract_listing"
  /\ result' = Listing(soup)
  /\ queries' = ExtractionQueries
  /\ pc' = "done"
  /\ UNCHANGED <<caller, retries, backoff, attempt, delay, last_exc, error, log,
                 soup>>
  /\ UNCHANGED <<treeVars, titleVars>>

\* the response bodies of a successful GET
Responses ==
  { <<>>,
    <<"<", "h", "1", ">", "T", " ", " ", "t", "<", "/", "h", "1", ">", "<", "d", "i", "v", " ", "c", "l", "a", "s", "s", "=", "\"", "P", "r", "o", "d", "u", "c", "t", "P", "r", "i", "c", "e", "\"", ">", "1", "<", "/", "d", "i", "v", ">", "<", "d", "i", "v", " ", "i", "d", "=", "\"", "P", "r", "o", "d", "u", "c", "t", "P", "h", "o", "t", "o", "\"", ">", "<", "i", "m", "g", " ", "s", "r", "c", "=", "\"", "h", "t", "t", "p", ":", "a", "\"", ">", "<", "i", "m", "g", " ", "d", "a", "t", "a", "-", "s", "r", "c", "=", "\"", ".", "/", "b", "\"", ">", "<", "/", "d", "i", "v", ">", "<", "d", "i", "v", " ", "i", "d", "=", "\"", "P", "r", "o", "d", "u", "c", "t", "D", "e", "s", "c", "r", "i", "p", "t", "i", "o", "n", "\"", ">", "<", "p", ">", "d", "<", "/", "p", ">", "<", "/", "d", "i", "v", ">", "<", "d", "i", "v", " ", "c", "l", "a", "s", "s", "=", "\"", "P", "r", "o", "d", "u", "c", "t", "D", "e", "t", "a", "i", "l", "_", "_", "s", "h", "i", "p", "p", "i", "n", "g", "\"", ">", "s", "<", "/", "d", "i", "v", ">">>,
    <<"<", "t", "i", "t", "l", "e", ">", "t", "<", "/", "t", "i", "t", "l", "e", ">", "<", "b", "a", "s", "e", " ", "h", "r", "e", "f", "=", "\"", "h", "\"", ">", "<", "s", "p", "a", "n", " ", "i", "t", "e", "m", "p", "r", "o", "p", "=", "\"", "p", "r", "i", "c", "e", "\"", ">", "2", "<", "/", "s", "p", "a", "n", ">", "<", "i", "m", "g", " ", "s", "r", "c", "=", "\"", "a", "\"", ">", "<", "i", "m", "g", " ", "s", "r", "c", "=", "\"", "b", "\"", ">", "<", "i", "m", "g", ">", "<", "i", "m", "g", " ", "s", "r", "c", "=", "\"", "c", "\"", ">", "<", "i", "m", "g", " ", "s", "r", "c", "=", "\"", "d", "\"", ">", "<", "b", ">", "S", "h", "i", "p", "p", "i", "n", "g", "<", "/", "b", ">", " ", "<", "i", ">", "f", "<", "/", "i", ">">>,
    <<"<", "d", "i", "v", " ", "c", "l", "a", "s", "s", "=", "\"", "P", "r", "o", "d", "u", "c", "t", "I", "m", "a", "g", "e", "\"", ">", "<", "p", ">", "x", "<", "/", "p", ">", "<", "/", "d", "i", "v", ">", "<", "d", "i", "v", " ", "c", "l", "a", "s", "s", "=", "\"", "I", "m", "a", "g", "e", "\"", ">", "<", "i", "m", "g", " ", "s", "r", "c", "=", "\"", "/", "a", "\"", ">", "<", "/", "d", "i", "v", ">", "<", "s", "e", "c", "t", "i", "o", "n", " ", "i", "t", "e", "m", "p", "r", "o", "p", "=", "\"", "d", "e", "s", "c", "r", "i", "p", "t", "i", "o", "n", "\"", ">", "d", "<", "/", "s", "e", "c", "t", "i", "o", "n", ">">>,
    <<"<", "d", "i", "v", " ", "c", "l", "a", "s", "s", "=", "\"", "B", "i", "g", "I", "m", "a", "g", "e", "s", "\"", ">", "<", "i", "m", "g", " ", "s", "r", "c", "=", "\"", "h", "t", "t", "p", ":", "1", "\"", ">", "<", "i", "m", "g", " ", "s", "r", "c", "=", "\"", "h", "t", "t", "p", ":", "2", "\"", ">", "<", "i", "m", "g", " ", "s", "r", "c", "=", "\"", "h", "t", "t", "p", ":", "3", "\"", ">", "<", "i", "m", "g", " ", "s", "r", "c", "=", "\"", "h", "t", "t", "p", ":", "4", "\"", ">", "<", "/", "d", "i", "v", ">">> }

NextFetch ==
  \/ \E r \in 0..MaxRetries, b \in Backoffs : fetch_html(r, b)
  \/ extract_listing
  \/ fetch_sleep
  \/ \E markup \in Responses : fetch_get_ok(markup)
  \/ \E kind \in Failures : fetch_get_fail(kind)
  \/ fetch_raise
  \/ extract_listing_except
  \/ extract_listing_return

SpecFetch == Init /\ [][NextFetch]_vars

(***************************************************************************)
(* generate_title (src/src/kpi3_title_generate.py).  specs maps each key   *)
(* to an optional string, None for a key the dict does not hold.           *)
(***************************************************************************)
\* clean_text(specs.get(key))
Field(sp, key) == clean_text(sp[key])

\* title_parts.append(...) under  if value != UNKNOWN
Part(value, prefix, suffix) ==
  IF value # UNKNOWN THEN << prefix \o value \o suffix >> ELSE <<>>

\* the list title_parts once the five conditional appends have run
title_parts(sp) ==
  << Field(sp, <<"b", "r", "a", "n", "d">>), Field(sp, <<"m", "o", "d", "e", "l">>) >>
    \o Part(Field(sp, <<"i", "n", "c", "h">>), <<>>, <<>>)
    \o Part(Field(sp, <<"w", "i", "d", "t", "h">>), <<>>, <<>>)
    \o Part(Field(sp, <<"h", "o", "l", "e", "s">>), <<>>, <<"H">>)
    \o Part(Field(sp, <<"p", "c", "d">>), <<"P", "C", "D">>, <<>>)
    \o Part(Field(sp, <<"o", "f", "f", "s", "e", "t">>), <<"O", "F", "F", "S", "E", "T">>, <<>>)

\* part for part in title_parts if part and part != UNKNOWN
IsKeptPart(part) == part # <<>> /\ part # UNKNOWN

\* " ".join(...) or UNKNOWN, returned under the key "title"
generate_title(sp) ==
  LET or_unknown(joined) == IF joined = <<>> THEN UNKNOWN ELSE joined
  IN [title |-> or_unknown(JoinSpace(SelectSeq(title_parts(sp), IsKeptPart)))]

\* the values a field of specs takes: no such key, the placeholder, a
\* numeral, a text with whitespace to normalise
FieldValues ==
  { None, Some(UNKNOWN), Some(<<"7">>), Some(<<" ", "R", " ", " ", "S">>) }

\* a call of generate_title
generate_title_call(sp) ==
  /\ generated = <<>>
  /\ specs' = sp
  /\ generated' = generate_title(sp)
  /\ UNCHANGED <<treeVars, fetchVars>>

NextTitle == \E sp \in [TitleKeys -> FieldValues] : generate_title_call(sp)

SpecTitle == Init /\ [][NextTitle]_vars

(***************************************************************************)
(* Vocabulary of the properties.                                           *)
(***************************************************************************)
Elements == 2..Len(nodes)

RECURSIVE Ancestors(_, _)
Ancestors(ns, i) ==
  IF ns[i].parent = 0 THEN {} ELSE {ns[i].parent} \cup Ancestors(ns, ns[i].parent)

ChildIndex(ns, par, i) ==
  CHOOSE k \in 1..Len(ns[par].children) : ns[par].children[k] = NodeChild(i)

\* the child positions on the way from the root down to node i
RECURSIVE PathTo(_, _)
PathTo(ns, i) ==
  IF ns[i].parent = 0 THEN <<>>
  ELSE Append(PathTo(ns, ns[i].parent), ChildIndex(ns, ns[i].parent, i))

\* document order: a parent before its children, children left to right
DocBefore(ns, a, b) ==
  LET pa == PathTo(ns, a)
      pb == PathTo(ns, b)
  IN \E k \in 0..Len(pa) :
       /\ k <= Len(pb)
       /\ SubSeq(pa, 1, k) = SubSeq(pb, 1, k)
       /\ \/ k = Len(pa) /\ k < Len(pb)
          \/ k < Len(pa) /\ k < Len(pb) /\ pa[k + 1] < pb[k + 1]

InDocOrder(ns, r) == \A i, j \in 1..Len(r) : i < j => DocBefore(ns, r[i], r[j])

SameName(ns, i, t) == LowerStr(ns[i].name) = LowerStr(t)

\* ---------------------------------------------------------------- C3 ----
C3Names == { S_p, <<"P">>, S_b, <<"B">>, S_br, <<"B", "r">>, S_x }

\* C3: find_all(t) on the Document returns exactly the non-root elements
\* whose tag name equals t case-insensitively, each once, in document order;
\* on a Tag it returns those among the proper descendants of the node, never
\* the node itself.
C3_FindAllByName ==
  \A t \in C3Names :
    /\ \A r \in {FindAll(nodes, ROOT, TRUE, NameStr(t), <<>>)} :
          /\ ~r.exc
          /\ Range(r.val) = {i \in Elements : SameName(nodes, i, t)}
          /\ Cardinality(Range(r.val)) = Len(r.val)
          /\ InDocOrder(nodes, r.val)
    /\ \A s \in Elements :
         \A r \in {FindAll(nodes, s, FALSE, NameStr(t), <<>>)} :
            /\ ~r.exc
            /\ Range(r.val) =
                 {i \in Elements : s \in Ancestors(nodes, i) /\ SameName(nodes, i, t)}
            /\ Cardinality(Range(r.val)) = Len(r.val)
            /\ InDocOrder(nodes, r.val)

\* a p element that holds a p element, and a third p element outside it:
\* the query on the Tag finds fewer elements than the query on the Document
C3_Witness ==
  \E s \in Elements :
    /\ SameName(nodes, s, S_p)
    /\ Len(find_all(nodes, s, NameStr(<<"P">>), <<>>).val) = 1
    /\ Len(BeautifulSoup_find_all(nodes, NameStr(<<"P">>), <<>>).val) = 3
    /\ \E i \in Elements : SameName(nodes, i, S_br)

\* ---------------------------------------------------------------- C2 ----
\* the groups g1, ..., gk written as one selector list
RECURSIVE JoinComma(_)
JoinComma(groups) ==
  IF Len(groups) = 1 THEN Head(groups)
  ELSE Head(groups) \o <<",", " ">> \o JoinComma(Tail(groups))

C2Lists ==
  { << <<"b">>, <<".", "a">> >>,
    << <<"#", "x">>, <<"p">>, <<"b">> >>,
    << <<".", "a", ".", "b">>, <<"b", "r">>, <<".", "b">> >>,
    << <<"p">>, <<"P">> >> }

\* the nodes a query on the subject ranges over
Scope(ns, s, isDoc) ==
  IF isDoc THEN 2..Len(ns) ELSE {i \in 2..Len(ns) : s \in Ancestors(ns, i)}

\* the groups of the list that match node n, given the parsed groups
MatchingGroups(parsed, n) == {g \in 1..Len(parsed) : matches(parsed[g], n)}

Least(m) == CHOOSE g \in m : \A h \in m : g <= h

\* (each value is computed once and then named by a quantifier over a
\* one-element set)
C2_Shape(groups, s, isDoc) ==
  \A r \in {select(nodes, s, isDoc, JoinComma(groups))} :
  \A parsed \in {[g \in 1..Len(groups) |-> _parse_selector(groups[g])]} :
  \A mg \in {[i \in Scope(nodes, s, isDoc) |-> MatchingGroups(parsed, nodes[i])]} :
     /\ Cardinality(Range(r)) = Len(r)
     /\ Range(r) = {i \in DOMAIN mg : mg[i] # {}}
     /\ \A i, j \in 1..Len(r) :
          i < j =>
            \/ Least(mg[r[i]]) < Least(mg[r[j]])
            \/ /\ Least(mg[r[i]]) = Least(mg[r[j]])
               /\ DocBefore(nodes, r[i], r[j])

\* C2: select on a selector list returns each node that matches at least one
\* group exactly once, ordered by the index of the earliest group that
\* matches the node and, within one group, by document order.
C2_SelectUnionOrder ==
  \A groups \in C2Lists :
    /\ C2_Shape(groups, ROOT, TRUE)
    /\ \A s \in Elements : C2_Shape(groups, s, FALSE)

\* a list whose result is out of document order and holds a node that
\* matches two of the groups
C2_Witness ==
  \E groups \in C2Lists :
    LET r == select(nodes, ROOT, TRUE, JoinComma(groups))
        parsed == [g \in 1..Len(groups) |-> _parse_selector(groups[g])]
    IN /\ ~InDocOrder(nodes, r)
       /\ \E i \in 1..Len(r) : Cardinality(MatchingGroups(parsed, nodes[r[i]])) >= 2

\* the sequence r lists exactly the nodes of the set m, in document order
ListsInDocOrder(ns, r, m) ==
  /\ Range(r) = m
  /\ Cardinality(m) = Len(r)
  /\ InDocOrder(ns, r)

\* ---------------------------------------------------------------- C1 ----
C1AttrNames == { S_class, S_id }
C1Values == { <<"a">>, <<"b">>, <<"x">> }
C1Quotes == { <<>>, <<"'">>, <<"\"">> }
C1Tags == { <<>>, S_p, S_b }

\* the selector text  tag[n*=v]  with v bare or quoted by q
SubstringSelector(tag, n, q, v) ==
  tag \o <<"[">> \o n \o <<"*", "=">> \o q \o v \o q \o <<"]">>

\* C1: select on [n*=v], alone or after a tag name, returns exactly the
\* non-root nodes (of that tag, if given) that carry attribute n with v as
\* a substring of its value.
C1_SubstringSelect ==
  \A tag \in C1Tags, n \in C1AttrNames, q \in C1Quotes, v \in C1Values :
    ListsInDocOrder(nodes,
      select(nodes, ROOT, TRUE, SubstringSelector(tag, n, q, v)),
      {i \in Elements :
         /\ tag = <<>> \/ SameName(nodes, i, tag)
         /\ DictHas(nodes[i].attrs, n)
         /\ Contains(DictGet(nodes[i].attrs, n).v, v)})

\* ---------------------------------------------------------------- C4 ----
C4Tags == { S_p, <<"P">>, S_b, S_br }
C4Tokens == { <<"a">>, <<"b">>, <<"a", "b">>, <<"a", ":">> }
C4IdentTokens == {c \in C4Tokens : \A i \in 1..Len(c) : IsIdentChar(c[i])}

\* select("t.c") and find_all(name=t, attrs={"class": c in value.split()})
\* return the same nodes on the given subject
C4_Same(t, c, s, isDoc) ==
  \A r \in {FindAll(nodes, s, isDoc, NameStr(t),
                     <<AttrCall(S_class, [f |-> "token", c |-> c])>>)} :
    ~r.exc /\ select(nodes, s, isDoc, t \o <<".">> \o c) = r.val

\* C4 as stated: for every tag name t and every class token c.
C4_SelectEqualsFindAll ==
  \A t \in C4Tags, c \in C4Tokens :
    /\ C4_Same(t, c, ROOT, TRUE)
    /\ \A s \in Elements : C4_Same(t, c, s, FALSE)

\* C4 amended: for every tag name t and every class token c made of word
\* characters and hyphens.
C4_SelectEqualsFindAllIdent ==
  \A t \in C4Tags, c \in C4IdentTokens :
    /\ C4_Same(t, c, ROOT, TRUE)
    /\ \A s \in Elements : C4_Same(t, c, s, FALSE)

\* both queries find an element on the Document and on a Tag, and a class
\* value that merely contains the token as a substring is left out
C4_Witness ==
  /\ select(nodes, ROOT, TRUE, <<"P", ".", "a">>) # <<>>
  /\ \E s \in Elements :
       /\ select(nodes, s, FALSE, <<"b", ".", "a", "b">>) # <<>>
       /\ select(nodes, s, FALSE, <<"b", ".", "a">>) = <<>>

\* ---------------------------------------------------------------- C7 ----
Answers == { "true", "false", "raise" }
C7Names == { S_p, S_b, S_br }
C7IdValues == { None, Some(<<>>), Some(S_x) }
C7NamePreds == {[f |-> "table", tbl |-> t] : t \in [C7Names -> Answers]}
C7AttrPreds == {[f |-> "table", tbl |-> t] : t \in [C7IdValues -> Answers]}

\* find returned the first node of m in document order, or None when m is
\* empty, and no exception reached the caller
FindsFirst(ns, r, found) ==
  \A m \in {found} :
    /\ ~r.exc
    /\ r.some <=> m # {}
    /\ r.some => r.v \in m /\ \A i \in m \ {r.v} : DocBefore(ns, r.v, i)

NameAnswer(name, ns, i) ==
  IF name.kind = "none" THEN "true"
  ELSE IF name.kind = "call" THEN CallName(name.pred, ns, i)
  ELSE IF LowerStr(ns[i].name) = LowerStr(name.str) THEN "true" ELSE "false"

C7_Find(s, isDoc, name, attrs) ==
  \A r \in {find(nodes, s, isDoc, name, attrs)} :
  \A all \in {FindAll(nodes, s, isDoc, name, attrs)} :
     /\ FindsFirst(nodes, r,
          {i \in Scope(nodes, s, isDoc) :
             /\ NameAnswer(name, nodes, i) = "true"
             /\ \A k \in 1..Len(attrs) :
                  CallAttr(attrs[k].pred, DictGet(nodes[i].attrs, attrs[k].k)) = "true"})
     /\ ~all.exc
     /\ r.some <=> all.val # <<>>
     /\ r.some => r.v = all.val[1]

C7Subjects == {[s |-> ROOT, isDoc |-> TRUE]} \cup {[s |-> i, isDoc |-> FALSE] : i \in Elements}

\* C7: find returns the first element of find_all in document order, or the
\* absence value; a name or attribute predicate that raises on a node makes
\* that node a non-match, the traversal goes on, and no exception reaches
\* the caller.
C7_FindTotal ==
  \A q \in C7Subjects :
    /\ \A np \in C7NamePreds : C7_Find(q.s, q.isDoc, NameCall(np), <<>>)
    /\ \A ap \in C7AttrPreds :
         C7_Find(q.s, q.isDoc, NameStr(<<"B">>), <<AttrCall(S_id, ap)>>)

\* a name predicate raises on the first element and find returns a later one
C7_Witness ==
  \E np \in C7NamePreds :
    /\ Len(nodes) >= 3
    /\ CallName(np, nodes, 2) = "raise"
    /\ find(nodes, ROOT, TRUE, NameCall(np), <<>>).some
    /\ find(nodes, ROOT, TRUE, NameCall(np), <<>>).v > 2

\* ---------------------------------------------------------------- C5 ----
\* the element children of node i: their tag names, their attribute
\* key/value pairs and, recursively, their element children; text left out
RECURSIVE Shape(_, _)
RECURSIVE ShapeChildren(_, _)
ShapeChildren(ns, children) ==
  IF children = <<>> THEN <<>>
  ELSE (IF Head(children).kind = "node"
          THEN << [name |-> ns[Head(children).id].name,
                   attrs |-> Range(ns[Head(children).id].attrs),
                   kids |-> Shape(ns, Head(children).id)] >>
          ELSE <<>>)
       \o ShapeChildren(ns, Tail(children))

Shape(ns, i) == ShapeChildren(ns, ns[i].children)

\* C5: building a new tree from n.decode_contents() yields children with the
\* same tag names, the same nesting and the same attribute key/value pairs
\* as the children of n, for every node n of every built tree.
C5_RoundTrip ==
  \A n \in 1..Len(nodes) :
    Shape(BeautifulSoup(decode_contents(nodes, n)), ROOT) = Shape(nodes, n)

\* ---------------------------------------------------------------- C6 ----
\* the open elements: the cursor and its ancestors
OpenPath(ns, cur) == {cur} \cup Ancestors(ns, cur)

\* the open elements named tag, the root left out
OpenNamed(ns, cur, tag) ==
  {a \in OpenPath(ns, cur) \ {ROOT} : SameName(ns, a, tag)}

\* the one nearest to the cursor: every other one is among its ancestors
NearestOpen(ns, cur, tag) ==
  CHOOSE a \in OpenNamed(ns, cur, tag) :
    \A a2 \in OpenNamed(ns, cur, tag) : a2 = a \/ a2 \in Ancestors(ns, a)

\* the end tag names an open ancestor of the cursor other than the cursor
NamesOpenAncestor(ns, cur, tag) ==
  \E a \in Ancestors(ns, cur) \ {ROOT} : SameName(ns, a, tag)

\* C6: an end tag that names an open ancestor of the cursor moves the cursor
\* to the parent of the nearest open element of that name and leaves the
\* tree as it is, so the elements from the old cursor up to that element are
\* closed where they are; an element that is closed stays closed and
\* nothing is attached to it by any later event.
C6_Step ==
  /\ \A t \in EndTags :
       handle_endtag(t) /\ NamesOpenAncestor(nodes, current, t) =>
         /\ nodes' = nodes
         /\ current' = nodes[NearestOpen(nodes, current, t)].parent
         /\ \A e \in OpenPath(nodes, current) :
              (e = NearestOpen(nodes, current, t)
                 \/ NearestOpen(nodes, current, t) \in Ancestors(nodes, e))
              => e \notin OpenPath(nodes', current')
  /\ \A i \in 1..Len(nodes) :
       i \notin OpenPath(nodes, current) =>
         /\ nodes'[i] = nodes[i]
         /\ i \notin OpenPath(nodes', current')

C6_MismatchedEndTag == [][C6_Step]_vars

\* <p><b></p> and one more event: b was closed with p without an end tag of
\* its own, both are where they were, and the later event went to the root
C6_Witness ==
  /\ fed = 4
  /\ Len(nodes) >= 3
  /\ SameName(nodes, 2, S_p) /\ nodes[2].parent = ROOT
  /\ SameName(nodes, 3, S_b) /\ nodes[3].parent = 2
  /\ nodes[2].children = <<NodeChild(3)>>
  /\ nodes[3].children = <<>>
  /\ Len(nodes[ROOT].children) = 2
  /\ current = ROOT

(***************************************************************************)
(* fetch_html and extract_listing: what the log of a call shows.           *)
(***************************************************************************)
IsGet(e) == e.type = "get"
IsSleep(e) == e.type = "sleep"
Gets == SelectSeq(log, IsGet)
Sleeps == SelectSeq(log, IsSleep)
Returned == pc = "returned" \/ (pc = "done" /\ error = "none")
RaisedFetchError == error = "FetchError"
Over == pc \in {"returned", "raised", "done"}
AllFailed == \A k \in 1..Len(Gets) : Gets[k].outcome \in Failures

\* the sleep entries written before the GET of attempt k
SleepsBefore(k) ==
  { i \in 1..Len(log) : IsSleep(log[i]) /\ log[i].attempt = k }

\* the delay before attempt k: what was slept, zero when nothing was
DelayBefore(k) ==
  IF SleepsBefore(k) = {} THEN Zero
  ELSE log[CHOOSE i \in SleepsBefore(k) : TRUE].delay

\* the GET of attempt k has a sleep right before it in the log
SleptBefore(k) ==
  \E i \in 2..Len(log) :
    /\ IsGet(log[i]) /\ log[i].attempt = k
    /\ IsSleep(log[i - 1]) /\ log[i - 1].attempt = k

\* C8: for every sequence of attempt outcomes, fetch_html with retries = N
\* makes its GET attempts one after the other, numbered 1, 2, ..., and at
\* most N of them; a successful attempt is the last one and fetch_html has
\* returned the document with it; FetchError is raised exactly when the
\* call is over and all N attempts were made and failed, a transport
\* exception and a bad status alike.
C8_Attempts ==
  /\ Len(Gets) <= retries
  /\ \A k \in 1..Len(Gets) : Gets[k].attempt = k
  /\ \A k \in 1..Len(Gets) :
       Gets[k].outcome = "ok" => k = Len(Gets) /\ Returned
  /\ Returned => Gets # <<>> /\ Gets[Len(Gets)].outcome = "ok"
  /\ RaisedFetchError => Over /\ Len(Gets) = retries /\ AllFailed
  /\ Over /\ Len(Gets) = retries /\ AllFailed => RaisedFetchError

\* a call raised FetchError after three attempts that failed in both ways
C8_Witness ==
  /\ pc = "raised"
  /\ RaisedFetchError
  /\ retries = 3
  /\ \E j, k \in 1..Len(Gets) :
       Gets[j].outcome = "transport" /\ Gets[k].outcome = "status"

\* C9 as stated: no delay precedes the first attempt, a delay is slept
\* before every later attempt, and the delay before an attempt equals the
\* delay before the previous attempt multiplied by backoff.
C9_DelayTimesBackoff ==
  /\ SleepsBefore(1) = {}
  /\ \A k \in 2..Len(Gets) : SleptBefore(k)
  /\ \A k \in 2..Len(Gets) :
       RatEq(DelayBefore(k), Mul(DelayBefore(k - 1), backoff))

\* C9: no delay precedes the first attempt; with a backoff other than zero
\* a delay is slept before every later attempt, the delay before the second
\* attempt is backoff itself and the delay before each attempt after it is
\* the delay before the previous attempt multiplied by backoff; with a
\* backoff of zero nothing is ever slept.
C9_BackoffSeeded ==
  /\ SleepsBefore(1) = {}
  /\ NonZero(backoff) => \A k \in 2..Len(Gets) : SleptBefore(k)
  /\ \A k \in 2..Len(Gets) :
       /\ Cardinality(SleepsBefore(k)) <= 1
       /\ k = 2 => RatEq(DelayBefore(k), backoff)
       /\ k > 2 => RatEq(DelayBefore(k), Mul(DelayBefore(k - 1), backoff))
  /\ ~NonZero(backoff) => Sleeps = <<>>

\* three attempts were made with backoff 3/2: 3/2 and then 9/4 were slept
C9_Witness ==
  /\ Len(Gets) >= 3
  /\ RatEq(backoff, Rat(3, 2))
  /\ RatEq(DelayBefore(2), Rat(3, 2))
  /\ RatEq(DelayBefore(3), Rat(9, 4))

\* C10: when fetch_html raises FetchError to extract_listing, extract_listing
\* catches it and returns: its result holds the unknown marker for title,
\* price, shipping and description_html and the empty list for photos, and
\* no extraction query has been run.
C10_FetchFailurePlaceholders ==
  /\ (caller = "extract_listing" /\ pc = "raised") => ENABLED extract_listing_except
  /\ (caller = "extract_listing" /\ pc = "done" /\ RaisedFetchError) =>
       /\ DOMAIN result = {"title", "price", "shipping", "photos", "description_html"}
       /\ result.title = UNKNOWN
       /\ result.price = UNKNOWN
       /\ result.shipping = UNKNOWN
       /\ result.description_html = UNKNOWN
       /\ result.photos = <<>>
       /\ queries = <<>>

\* extract_listing has returned after its three attempts failed
C10_Witness ==
  /\ caller = "extract_listing"
  /\ pc = "done"
  /\ RaisedFetchError
  /\ Len(Gets) = DEFAULT_RETRIES

(***************************************************************************)
(* Photo extraction: what the ordered gallery selectors locate.            *)
(***************************************************************************)
\* the four gallery selectors as the selector grammar describes them: two
\* ids, a class, and a div whose class value has "Image" as a substring
GalleryTests ==
  << [EmptySelector EXCEPT !.id = Some(<<"P", "r", "o", "d", "u", "c", "t", "P", "h", "o", "t", "o">>)],
     [EmptySelector EXCEPT !.id = Some(<<"P", "r", "o", "d", "u", "c", "t", "I", "m", "a", "g", "e">>)],
     [EmptySelector EXCEPT !.classes = <<<<"P", "r", "o", "d", "u", "c", "t", "I", "m", "a", "g", "e">>>>],
     [EmptySelector EXCEPT !.tag = Some(<<"d", "i", "v">>), !.attr_name = Some(S_class),
                           !.attr_op = Some(<<"*", "=">>),
                           !.attr_value = Some(<<"I", "m", "a", "g", "e">>)] >>

\* the nodes of the document that the k-th gallery selector locates
LocatedBy(ns, k) ==
  { i \in 2..Len(ns) : i \in Range(_iter_nodes(ns, ROOT, TRUE))
                        /\ matches(GalleryTests[k], ns[i]) }

GalleryLocated(ns) == \E k \in 1..Len(GalleryTests) : LocatedBy(ns, k) # {}

\* the first container located: the first selector that locates a node,
\* and the first such node in document order
FirstContainer(ns) ==
  LET k == CHOOSE j \in 1..Len(GalleryTests) :
             LocatedBy(ns, j) # {} /\ \A x \in 1..(j - 1) : LocatedBy(ns, x) = {}
      order == _iter_nodes(ns, ROOT, TRUE)
  IN order[CHOOSE a \in 1..Len(order) :
             order[a] \in LocatedBy(ns, k)
             /\ \A b \in 1..(a - 1) : order[b] \notin LocatedBy(ns, k)]

IsImg(ns, i) == LowerStr(ns[i].name) = <<"i", "m", "g">>

\* the img elements among a sequence of nodes, in the order of the sequence
RECURSIVE ImgsOf(_, _)
ImgsOf(ns, order) ==
  IF order = <<>> THEN <<>>
  ELSE (IF IsImg(ns, Head(order)) THEN <<Head(order)>> ELSE <<>>)
       \o ImgsOf(ns, Tail(order))

\* the URLs of the imgs that have one, in order: a gallery img gives its src,
\* data-src or data-lazy, an img of the fallback its src
RECURSIVE UrlsOf(_, _, _)
UrlsOf(ns, imgs, gallery) ==
  IF imgs = <<>> THEN <<>>
  ELSE LET url == IF gallery THEN GallerySrc(ns, Head(imgs))
                  ELSE Tag_get(ns, Head(imgs), <<"s", "r", "c">>)
       IN (IF Truthy(url) THEN <<_ensure_absolute_url(url.v, ns)>> ELSE <<>>)
          \o UrlsOf(ns, Tail(imgs), gallery)

FirstThree(urls) == SubSeq(urls, 1, IF Len(urls) < 3 THEN Len(urls) ELSE 3)

\* C11: photo extraction returns, in document order, the URLs of the img
\* descendants of the first gallery container that the ordered gallery
\* selectors locate; only when no container is located does it return the
\* first URLs, at most 3, of the img elements anywhere in the document.
C11_GalleryPhotos ==
  (caller = "extract_listing" /\ pc = "done" /\ error = "none") =>
    result.photos =
      IF GalleryLocated(soup)
        THEN UrlsOf(soup, ImgsOf(soup, _iter_nodes(soup, FirstContainer(soup), FALSE)), TRUE)
        ELSE FirstThree(UrlsOf(soup, ImgsOf(soup, _iter_nodes(soup, ROOT, FALSE)), FALSE))

(***************************************************************************)
(* generate_title: the components of the title.                            *)
(***************************************************************************)
\* the component of one field, as the title is specified: nothing for the
\* placeholder, else the normalised value between its prefix and suffix
Component(sp, key, prefix, suffix) ==
  IF clean_text(sp[key]) = UNKNOWN THEN <<>>
  ELSE << prefix \o clean_text(sp[key]) \o suffix >>

SpecifiedComponents(sp) ==
  Component(sp, <<"b", "r", "a", "n", "d">>, <<>>, <<>>)
    \o Component(sp, <<"m", "o", "d", "e", "l">>, <<>>, <<>>)
    \o Component(sp, <<"i", "n", "c", "h">>, <<>>, <<>>)
    \o Component(sp, <<"w", "i", "d", "t", "h">>, <<>>, <<"J">>)
    \o Component(sp, <<"h", "o", "l", "e", "s">>, <<>>, <<"H">>)
    \o Component(sp, <<"p", "c", "d">>, <<"P", "C", "D">>, <<>>)
    \o Component(sp, <<"o", "f", "f", "s", "e", "t">>, <<"O", "F", "F", "S", "E", "T">>, <<>>)

\* C12: for every specs mapping with at least one known field,
\* generate_title returns the space-joined components, in this order: brand,
\* model, diameter, width followed by "J", holes followed by "H", "PCD"
\* followed by pcd, "OFFSET" followed by offset, keeping exactly those whose
\* field is not the unknown placeholder.
C12_TitleComponents ==
  (generated # <<>> /\ SpecifiedComponents(specs) # <<>>) =>
    generated = [title |-> JoinSpace(SpecifiedComponents(specs))]

\* C12 apart from the width: for every specs mapping whose width is unknown
\* and that has at least one known field, the title is the space-joined
\* specified components.
C12_TitleWithoutWidth ==
  (generated # <<>> /\ SpecifiedComponents(specs) # <<>>
     /\ clean_text(specs[<<"w", "i", "d", "t", "h">>]) = UNKNOWN) =>
    generated = [title |-> JoinSpace(SpecifiedComponents(specs))]

(***************************************************************************)
(* A stray end tag.                                                        *)
(***************************************************************************)
\* C13: an end tag that names no open element, from the cursor up to the
\* root, is ignored: the step changes neither the tree nor the cursor, so
\* the events after it are attached under the element that was open.
C13_Step ==
  \A t \in EndTags :
    handle_endtag(t) /\ OpenNamed(nodes, current, t) = {} =>
      /\ nodes' = nodes
      /\ current' = current

C13_StrayEndTagIgnored == [][C13_Step]_vars

====
